---- MODULE Spec2Model ----
(***************************************************************************)
(* Model of the remote recorder of record.c: janus_recorder_create,        *)
(* janus_recorder_save_frame, janus_recorder_close, janus_recorder_destroy,*)
(* janus_recorder_free and send_tcp_content, run by several threads on one *)
(* recorder.                                                               *)
(*                                                                         *)
(* Conventions                                                             *)
(*  - a C string is a sequence of one-character strings; NULL is "NULL";   *)
(*  - a size_t value v is held as the integer n with v = n (mod 2^64) and  *)
(*    |n| small, so SIZE_MAX is -1; SizeLt is the unsigned comparison;     *)
(*  - the socket descriptor is a number; the model tracks whether the      *)
(*    descriptor is open and how often close(2) was called on it;          *)
(*  - the wire is the sequence of blocks that reached the remote end;      *)
(*  - sendto on a descriptor that was closed fails (the number is not      *)
(*    handed out again while the recorder lives);                          *)
(*  - socket() returns descriptor 3, the first after the standard streams; *)
(*  - a thread that is inside a call when g_free(recorder) runs reads      *)
(*    freed memory: it finds the old contents or the process faults.       *)
(***************************************************************************)
EXTENDS Integers, Sequences, FiniteSets, TLC

(* ------------------------------ bounds -------------------------------- *)
\* number of threads that use the recorder
NThreads == 2
\* total number of API calls the threads start on the recorder
MaxCalls == 2
\* references callers take besides the one create registers
MaxHolders == 1
\* longest sequence of sendto results one send_tcp_content call consumes
MaxSendto == 3

\* most bytes, and most sendto calls, of a send_tcp_content call that is
\* looked at byte by byte
MaxSendLen == 5
MaxSendSteps == 6

Threads == 1..NThreads
\* the null pointer, as a value no C string equals
NULL == <<"NULL">>

(* ------------------------- strings and numbers ------------------------ *)
Min(a, b) == IF a < b THEN a ELSE b
Max(a, b) == IF a > b THEN a ELSE b

Take(s, n) == SubSeq(s, 1, Min(Len(s), Max(n, 0)))

\* strlen
strlen(s) == Len(s)

\* g_snprintf(dst, size, "%s", s): at most size-1 characters are stored
g_snprintf(size, s) == IF size <= 0 THEN <<>> ELSE Take(s, size - 1)

\* unsigned (size_t) a < b on the representatives
SizeLt(a, b) ==
    IF (a >= 0) = (b >= 0) THEN a < b ELSE a >= 0

\* (int) of a size_t: the low 32 bits read as signed; on representatives
\* of magnitude below 2^31 the low 32 bits are the representative itself
IntOfSize(n) == n

\* sizeof(int), sizeof(uint16_t), sizeof(gint64); strlen of the two tags
SizeofInt == 4
SizeofU16 == 2
SizeofI64 == 8
HeaderLen == 8
FrameHeaderLen == 8
\* size of the newname/oldpath/newpath buffers
NameBufSize == 1024

(* --------------------------- send_tcp_content -------------------------- *)
\* what one sendto call may return: -1, one byte, or all bytes asked for
SendtoOutcomes == {"fail", "one", "rest"}

Scripts == UNION {[1..n -> SendtoOutcomes] : n \in 0..MaxSendto}

\* the ssize_t result of sendto stored in the size_t variable sent
SendtoResult(r, req) ==
    IF r = "fail" THEN -1 ELSE IF r = "one" THEN 1 ELSE req

\* line 419, if(sent<0), with sent a size_t: an unsigned comparison with 0
SentNegative(sent) == SizeLt(sent, 0)

\* The loop of send_tcp_content from the state (sentoffset, script left).
\* segs lists the <<offset, count>> pieces of buf the socket accepted.
\* complete: the loop ended having consumed exactly the script.
RECURSIVE SendLoop(_, _, _, _)
SendLoop(len, sentoffset, script, segs) ==
    IF ~SizeLt(sentoffset, len)
    THEN [complete |-> script = <<>>, ret |-> IntOfSize(sentoffset), segs |-> segs]
    ELSE IF script = <<>>
    THEN [complete |-> FALSE, ret |-> 0, segs |-> segs]
    ELSE LET req == len - sentoffset
             r == Head(script)
             sent == SendtoResult(r, req)
         IN IF r = "one" /\ req < 2
            THEN [complete |-> FALSE, ret |-> 0, segs |-> segs]
            ELSE IF SentNegative(sent)
            THEN [complete |-> Tail(script) = <<>>, ret |-> -1, segs |-> segs]
            ELSE SendLoop(len, sentoffset + sent, Tail(script),
                          IF r = "fail" THEN segs
                          ELSE Append(segs, <<sentoffset, sent>>))

send_tcp_content(len, script) == SendLoop(len, 0, script, <<>>)

\* the runs of send_tcp_content(sfd, buf, len) on a descriptor that is open
\* (any sendto may fail or be short) or closed (every sendto fails)
SendRuns(open, len) ==
    { run \in { send_tcp_content(len, s) :
                  s \in { x \in Scripts : open \/ \A i \in 1..Len(x) : x[i] = "fail" } } :
        run.complete }

\* what the callers of send_tcp_content see of a run: whether the result
\* is negative, and whether any byte reached the remote end
SendResults(open, len) ==
    { [failed |-> run.ret < 0, delivered |-> run.segs # <<>>] :
        run \in SendRuns(open, len) }

(* ------------------------------- state -------------------------------- *)
VARIABLES
    rec_tempname,   \* static gboolean rec_tempname
    rec_tempext,    \* static char *rec_tempext
    handle,         \* what the last create returned: "none" yet, NULL, or "rc"
    lastCreate,     \* inputs and failure point of the last create
    sock,           \* the descriptor of the last create: "none", "open", "closed"
    rc,             \* the janus_recorder object
    freed,          \* g_free(recorder) has run
    crashed,        \* the process faulted on freed memory
    th,             \* per thread: position, arguments, last return value
    wire,           \* blocks that reached the remote end, in order
    hist,           \* counters of what the calls did
    sendRun         \* a send_tcp_content call looked at byte by byte

vars == <<rec_tempname, rec_tempext, handle, lastCreate, sock, rc,
          freed, crashed, th, wire, hist, sendRun>>

(* --------------------------- process start ---------------------------- *)
\* janus_recorder_init(tempnames, extension): the naming policy it leaves
janus_recorder_init(tempnames, extension) ==
    IF tempnames
    THEN [tempname |-> TRUE,
          tempext |-> IF extension = NULL THEN <<"t", "m", "p">> ELSE extension]
    ELSE [tempname |-> FALSE, tempext |-> NULL]

\* extensions the process may be started with
Extensions == {NULL}

\* the recorder before any create returned one
NoRecorder ==
    [type |-> "none", codec |-> NULL, created |-> 0, dir |-> NULL, filename |-> NULL,
     tcpsock |-> 0, writable |-> 0, header |-> 0, destroyed |-> 0,
     ref |-> 0, mutex |-> 0]

\* pc: the statement the thread is at; op: the call it is in or was in last;
\* buf, length: the arguments of save_frame; ticket: the position of the call
\* among the save_frame calls that took the mutex (0: it did not); inFree: its
\* close was called by janus_recorder_free; rv: what its last call returned;
\* after: the call started after a close had returned 0
IdleThread ==
    [pc |-> "idle", op |-> "none", buf |-> FALSE, length |-> 0, ticket |-> 0,
     inFree |-> FALSE, rv |-> 0, after |-> FALSE]

\* calls: calls started; locks: save_frame calls that took the mutex;
\* closeCalls/closeOk/closeErr: close calls made, returned 0, returned -1;
\* closeFin, renames: close(2) and rename(2) done by janus_recorder_close;
\* renamed: rename(2) calls that succeeded;
\* decs: references released by destroy; frees: janus_recorder_free runs;
\* holders, held: references taken by other holders, and still held;
\* sockCloses: close(2) calls on the descriptor since it was connected
NoHistory ==
    [calls |-> 0, locks |-> 0, closeCalls |-> 0, closeOk |-> 0, closeErr |-> 0,
     closeFin |-> 0, renames |-> 0, renamed |-> 0, decs |-> 0, frees |-> 0, holders |-> 0,
     held |-> 0, sockCloses |-> 0]

\* no send_tcp_content call is being looked at
NoSendRun == [stage |-> "none", len |-> 0, script |-> <<>>, ret |-> 0, segs |-> <<>>]

\* the process after janus_recorder_init ran with one of the extensions
InitWith(extensions) ==
    /\ \E tempnames \in BOOLEAN, extension \in extensions :
          LET g == janus_recorder_init(tempnames, extension)
          IN /\ rec_tempname = g.tempname
             /\ rec_tempext = g.tempext
    /\ handle = "none"
    /\ lastCreate = [codec |-> NULL, file |-> NULL, err |-> "none"]
    /\ sock = "none"
    /\ rc = NoRecorder
    /\ freed = FALSE
    /\ crashed = FALSE
    /\ th = [t \in Threads |-> IdleThread]
    /\ wire = <<>>
    /\ hist = NoHistory
    /\ sendRun = NoSendRun

Init == InitWith(Extensions)

(* ----------------------- janus_recorder_create ------------------------ *)
LowerChar(c) ==
    CASE c = "V" -> "v" [] c = "P" -> "p" [] c = "O" -> "o" [] c = "U" -> "u"
      [] c = "S" -> "s" [] c = "T" -> "t" [] c = "E" -> "e" [] c = "X" -> "x"
      [] c = "H" -> "h" [] c = "G" -> "g" [] c = "C" -> "c" [] c = "M" -> "m"
      [] c = "A" -> "a" [] OTHER -> c

\* !strcasecmp(a, b)
SameNoCase(a, b) ==
    /\ Len(a) = Len(b)
    /\ \A i \in 1..Len(a) : LowerChar(a[i]) = LowerChar(b[i])

VideoCodecs == {<<"v", "p", "8">>, <<"v", "p", "9">>, <<"h", "2", "6", "4">>}
AudioCodecs == {<<"o", "p", "u", "s">>, <<"g", "7", "1", "1">>, <<"p", "c", "m", "u">>,
                <<"p", "c", "m", "a">>, <<"g", "7", "2", "2">>}
DataCodecs == {<<"t", "e", "x", "t">>}

\* the codec compared with strcmp where the code uses strcasecmp
CodecTypeExact(codec) ==
    IF codec \in VideoCodecs THEN "video"
    ELSE IF codec \in AudioCodecs THEN "audio"
    ELSE IF codec \in DataCodecs THEN "data"
    ELSE "unsupported"

\* lines 92-105: the medium of a non-null codec, or "unsupported"
CodecType(codec) ==
    IF \E c \in VideoCodecs : SameNoCase(codec, c) THEN "video"
    ELSE IF \E c \in AudioCodecs : SameNoCase(codec, c) THEN "audio"
    ELSE IF \E c \in DataCodecs : SameNoCase(codec, c) THEN "data"
    ELSE "unsupported"

\* positions of '/' in a path
Slashes(s) == {i \in 1..Len(s) : s[i] = "/"}
LastSlash(s) == CHOOSE i \in Slashes(s) : \A j \in Slashes(s) : j <= i

\* dirname(3) and basename(3) on paths without a trailing '/'
dirname(s) ==
    IF Slashes(s) = {} THEN <<".">>
    ELSE IF LastSlash(s) = 1 THEN <<"/">>
    ELSE SubSeq(s, 1, LastSlash(s) - 1)
basename(s) ==
    IF Slashes(s) = {} THEN s ELSE SubSeq(s, LastSlash(s) + 1, Len(s))

\* lines 118-138: the directory to check and the name to use
RecDir(dir, filename) ==
    IF filename = NULL THEN NULL
    ELSE IF dir = NULL THEN dirname(filename) ELSE dir
RecFile(dir, filename) ==
    IF filename = NULL THEN NULL
    ELSE IF dir = NULL THEN basename(filename) ELSE filename

\* what stat and janus_mkdir may answer for the directory
StatOutcomes == {"isdir", "enoent_mkdir_ok", "enoent_mkdir_fail", "stat_error", "not_dir"}

\* lines 139-164: the directory check passes
DirOk(rec_dir, stat) ==
    rec_dir = NULL \/ stat \in {"isdir", "enoent_mkdir_ok"}

\* "janus-recording-%u" for the random number 7
RandomName ==
    <<"j", "a", "n", "u", "s", "-", "r", "e", "c", "o", "r", "d", "i", "n", "g", "-", "7">>

\* lines 165-185: the name of the recording
NewName(rec_file, tempname, tempext) ==
    LET base == IF rec_file = NULL THEN RandomName ELSE rec_file
    IN g_snprintf(NameBufSize,
                  IF ~tempname THEN base \o <<".", "m", "j", "r">>
                  ELSE base \o <<".", "m", "j", "r", ".">> \o tempext)

\* the descriptor socket() returns: the first one after stdin, stdout, stderr
SockFd == 3

\* the close(rc->tcpsock) of lines 238 and 249 left out
FailedCreateSockLeak(err) ==
    IF err = "connect" THEN "closed" ELSE IF err = "send" THEN "open" ELSE "none"

\* The descriptor when create fails at err: none was opened before socket()
\* succeeded; lines 227, 238 and 249 close the one that was.
FailedCreateSock(err) ==
    IF err \in {"connect", "send"} THEN "closed" ELSE "none"

\* janus_recorder_create(dir, codec, filename) under the environment env:
\* janus_get_real_time, stat/mkdir, gethostbyname, socket, connect and the
\* two send_tcp_content runs. err is "none" and ret the recorder, or err names the failure and NULL
\* is returned; sock is the state the descriptor is left in; sent the blocks
\* of which bytes reached the remote end.
janus_recorder_create(dir, codec, filename, tempname, tempext, env) ==
    LET fail(err, sent) ==
            [ret |-> NoRecorder, err |-> err, sock |-> FailedCreateSock(err), sent |-> sent]
        rec_dir == RecDir(dir, filename)
        newname == NewName(RecFile(dir, filename), tempname, tempext)
        sentName == IF env.run1.delivered THEN <<"fname">> ELSE <<>>
        sentHdr == IF env.run2.delivered THEN <<"hdr">> ELSE <<>>
    IN IF codec = NULL THEN fail("codec", <<>>)
       ELSE IF CodecType(codec) = "unsupported" THEN fail("codec", <<>>)
       ELSE IF ~DirOk(rec_dir, env.stat) THEN fail("dir", <<>>)
       ELSE IF ~env.host THEN fail("host", <<>>)
       ELSE IF ~env.socket THEN fail("socket", <<>>)
       ELSE IF ~env.connect THEN fail("connect", <<>>)
       ELSE IF env.run1.failed THEN fail("send", sentName)
       ELSE IF env.run2.failed THEN fail("send", sentName \o sentHdr)
       ELSE [ret |-> [type |-> CodecType(codec), codec |-> codec,
                      created |-> env.now, dir |-> rec_dir,
                      filename |-> newname, tcpsock |-> SockFd, writable |-> 1,
                      header |-> 0, destroyed |-> 0, ref |-> 1, mutex |-> 0],
             err |-> "none", sock |-> "open", sent |-> sentName \o sentHdr]

\* inputs of create: (dir, filename) pairs and codecs
Targets == {<<NULL, <<"r", "/", "t">>>>}
Codecs == {NULL, <<"O", "p", "u", "s">>, <<"t", "e", "x", "t">>, <<"h", "2", "6", "5">>}

(* ------------------------------- inputs ------------------------------- *)
\* the (buffer, length) pairs callers pass: a null buffer, no bytes, a frame
FrameArgs == {<<FALSE, 2>>, <<TRUE, 0>>, <<TRUE, 2>>}

\* line 346: (int)length passed as the size_t len, for lengths below 2^31
PayloadLen(length) == length

\* strlen(info_text): {"t": "a", "c": "<codec>", "s": <16 digits>, "u": <16 digits>};
\* json_string(NULL) makes json_object_set_new drop the "c" member
InfoTextLen(codec) ==
    IF codec = NULL THEN 56 ELSE 65 + strlen(codec)

\* a name with which "<name>.mjr.tmp" has one character more than the
\* NameBufSize - 1 that fit in newname
LongName ==
    LET n == NameBufSize - Len(<<".", "m", "j", "r", ".", "t", "m", "p">>)
    IN SubSeq([i \in 1..n |-> "a"], 1, n)

WideExtensions == {NULL, <<"x">>}
WideTargets == {<<NULL, <<"r", "/", "t">>>>, <<NULL, NULL>>, <<NULL, LongName>>}
WideCodecs ==
    VideoCodecs \cup AudioCodecs \cup DataCodecs
    \cup {NULL, <<>>, <<"V", "P", "8">>, <<"T", "e", "x", "t">>,
          <<"h", "2", "6", "5">>, <<"v", "p">>, <<"o", "p", "u", "s", "2">>}
WideFrameArgs ==
    {<<FALSE, 2>>, <<TRUE, 0>>, <<TRUE, 1>>, <<TRUE, 65528>>, <<TRUE, 65536>>}

\* the len arguments send_tcp_content is called with for these inputs
SendLens ==
    {strlen(NewName(RecFile(target[1], target[2]), g.tempname, g.tempext)) + SizeofInt :
        target \in Targets \cup WideTargets,
        g \in {janus_recorder_init(tempnames, extension) :
                  tempnames \in BOOLEAN, extension \in Extensions \cup WideExtensions}}
    \cup {SizeofU16 + InfoTextLen(codec) : codec \in Codecs \cup WideCodecs}
    \cup {PayloadLen(a[2]) : a \in FrameArgs \cup WideFrameArgs}
    \cup {HeaderLen + SizeofInt, FrameHeaderLen, SizeofU16, SizeofI64}

\* SendResults for these lengths, worked out once
SendTable == [open \in BOOLEAN, len \in SendLens |-> SendResults(open, len)]

\* what the caller of one send_tcp_content(sfd, buf, len) call may see
SendResultsFor(open, len) ==
    IF len \in SendLens THEN SendTable[open, len] ELSE SendResults(open, len)

\* gethostbyname, socket and connect succeed; the calls after the first
\* failing one are not made
NetOutcomes == {<<FALSE, FALSE, FALSE>>, <<TRUE, FALSE, FALSE>>,
                <<TRUE, TRUE, FALSE>>, <<TRUE, TRUE, TRUE>>}

\* what janus_get_real_time returns when create runs
Clock == {1000}

\* A block of which bytes reached the remote end, and the call that sent it.
\* n is the number of bytes the block has; for the length field of a frame
\* it is the number the field holds.
Block(kind, ticket, n) == [kind |-> kind, ticket |-> ticket, n |-> n]

\* create called with a (dir, filename) pair, a codec and a time of these sets
CreateWith(targets, codecs, clock) ==
    /\ ~crashed
    /\ handle # "rc"
    /\ \E target \in targets :
        LET dir == target[1]
            filename == target[2]
            newname == NewName(RecFile(dir, filename), rec_tempname, rec_tempext)
            len1 == strlen(newname) + SizeofInt
            len2 == HeaderLen + SizeofInt
        IN \E run1 \in SendResultsFor(TRUE, len1), run2 \in SendResultsFor(TRUE, len2),
              codec \in codecs, stat \in StatOutcomes, net \in NetOutcomes,
              now \in clock :
            LET r == janus_recorder_create(dir, codec, filename, rec_tempname,
                        rec_tempext,
                        [now |-> now, stat |-> stat, host |-> net[1],
                         socket |-> net[2], connect |-> net[3],
                         run1 |-> run1, run2 |-> run2])
            IN /\ handle' = IF r.err = "none" THEN "rc" ELSE "NULL"
               /\ rc' = r.ret
               /\ lastCreate' = [codec |-> codec, file |-> RecFile(dir, filename),
                                 err |-> r.err]
               /\ sock' = r.sock
               /\ wire' = [i \in 1..Len(r.sent) |->
                             Block(r.sent[i], 0,
                                   IF r.sent[i] = "fname" THEN len1 ELSE len2)]
    /\ UNCHANGED <<sendRun, rec_tempname, rec_tempext, freed, crashed, th, hist>>

Create == CreateWith(Targets, Codecs, Clock)

(* ----------------------------- the threads ---------------------------- *)
\* Every call is made on the handle create returned, so the !recorder tests
\* of lines 269, 369 and 409 are false.

\* thread t may take a step of the call it is in
InCall(t, pc) == ~crashed /\ handle = "rc" /\ th[t].pc = pc

\* thread t may start a call on the recorder
MayCall(t) ==
    /\ ~crashed /\ handle = "rc" /\ ~freed
    /\ th[t].pc = "idle"
    /\ hist.calls < MaxCalls

\* the thread record at the start of a call
Started(op, pc, buf, length) ==
    [pc |-> pc, op |-> op, buf |-> buf, length |-> length, ticket |-> 0,
     inFree |-> FALSE, rv |-> 0, after |-> hist.closeOk > 0]

\* the thread record when its call returns v
Returned(t, v) == [th[t] EXCEPT !.pc = "idle", !.rv = v, !.inFree = FALSE]

\* close(recorder->tcpsock)
CloseSock(h) == [h EXCEPT !.sockCloses = @ + 1]

(* --------------------- janus_recorder_save_frame ---------------------- *)
SaveFrameCallWith(t, args) ==
    /\ MayCall(t)
    /\ \E a \in args :
         th' = [th EXCEPT ![t] = Started("save", "sf_lock", a[1], a[2])]
    /\ hist' = [hist EXCEPT !.calls = @ + 1]
    /\ UNCHANGED <<sendRun, rec_tempname, rec_tempext, handle, lastCreate, sock,
                   rc, freed, crashed, wire>>

SaveFrameCall(t) == SaveFrameCallWith(t, FrameArgs)

\* the writable test made before the test of the arguments
SaveFrameCheckClosedFirst(buf, length, tcpsock, writable) ==
    IF writable = 0 THEN -4
    ELSE IF ~buf \/ length < 1 THEN -2
    ELSE IF tcpsock < 2 THEN -3
    ELSE 0

\* the writable test left out
SaveFrameCheckNoWritable(buf, length, tcpsock, writable) ==
    IF ~buf \/ length < 1 THEN -2
    ELSE IF tcpsock < 2 THEN -3
    ELSE 0

\* lines 272-287, run with the mutex held: the value returned, or 0 to go on
SaveFrameCheck(buf, length, tcpsock, writable) ==
    IF ~buf \/ length < 1 THEN -2
    ELSE IF tcpsock < 2 THEN -3
    ELSE IF writable = 0 THEN -4
    ELSE 0

\* a lock that lets every thread in
MutexNeverHeld(mutex) == TRUE

\* janus_mutex_lock_nodebug returns once no thread holds the mutex
MutexFree(mutex) == mutex = 0

\* the header flag is not consulted
NeedsInfoHeaderAlways(header) == TRUE

\* line 287: the info header is still to be written
NeedsInfoHeader(header) == header = 0

\* lines 271-287: take the mutex, test the arguments and the recorder
SfEnter(t) ==
    /\ InCall(t, "sf_lock")
    /\ MutexFree(rc.mutex)
    /\ LET v == SaveFrameCheck(th[t].buf, th[t].length, rc.tcpsock, rc.writable)
           me == [th[t] EXCEPT !.ticket = hist.locks + 1]
       IN /\ IF v = 0
             THEN /\ rc' = [rc EXCEPT !.mutex = t]
                  /\ th' = [th EXCEPT ![t] =
                              [me EXCEPT !.pc = IF NeedsInfoHeader(rc.header) THEN "sf_meta"
                                                ELSE "sf_tag"]]
             ELSE /\ rc' = rc
                  /\ th' = [th EXCEPT ![t] = [me EXCEPT !.pc = "idle", !.rv = v]]
          /\ sock' = IF v = -4 THEN "closed" ELSE sock
          /\ hist' = [IF v = -4 THEN CloseSock(hist) ELSE hist
                        EXCEPT !.locks = @ + 1]
    /\ UNCHANGED <<sendRun, rec_tempname, rec_tempext, handle, lastCreate,
                   freed, crashed, wire>>

\* the mutex after a send_tcp_content of lines 309-342 failed: no unlock
MutexAfterFailedSend(owner) == owner

\* One send_tcp_content call of save_frame made while holding the mutex,
\* lines 309-313, 325-328, 331-334, 339-342: on failure the descriptor is
\* closed and -5 returned.
SfSend(t, kind, len, n, next, setHeader) ==
    \E run \in SendResultsFor(sock = "open", len) :
        /\ wire' = IF run.delivered THEN Append(wire, Block(kind, th[t].ticket, n))
                   ELSE wire
        /\ IF run.failed
           THEN /\ sock' = "closed"
                /\ hist' = CloseSock(hist)
                /\ th' = [th EXCEPT ![t] = Returned(t, -5)]
                /\ rc' = [rc EXCEPT !.mutex = MutexAfterFailedSend(@)]
           ELSE /\ rc' = IF setHeader THEN [rc EXCEPT !.header = 1] ELSE rc
                /\ th' = [th EXCEPT ![t].pc = next]
                /\ UNCHANGED <<sock, hist>>

\* (uint16_t) of an unsigned value: its low 16 bits
U16(x) == x % 65536

\* line 330: the number header_bytes carries to the remote end (htons puts
\* its two bytes in network order; length + sizeof(gint64) is a size_t sum)
HeaderBytes(type, length) ==
    U16(IF type = "data" THEN length + SizeofI64 ELSE length)

\* lines 287-321
SfMeta(t) ==
    /\ InCall(t, "sf_meta")
    /\ SfSend(t, "meta", SizeofU16 + InfoTextLen(rc.codec),
              SizeofU16 + InfoTextLen(rc.codec), "sf_tag", TRUE)
    /\ UNCHANGED <<sendRun, rec_tempname, rec_tempext, handle, lastCreate, freed, crashed>>

\* lines 325-328
SfTag(t) ==
    /\ InCall(t, "sf_tag")
    /\ SfSend(t, "tag", FrameHeaderLen, FrameHeaderLen, "sf_len", FALSE)
    /\ UNCHANGED <<sendRun, rec_tempname, rec_tempext, handle, lastCreate, freed, crashed>>

\* lines 330-336
SfLen(t) ==
    /\ InCall(t, "sf_len")
    /\ SfSend(t, "len", SizeofU16, HeaderBytes(rc.type, th[t].length),
              IF rc.type = "data" THEN "sf_ts" ELSE "sf_payload", FALSE)
    /\ UNCHANGED <<sendRun, rec_tempname, rec_tempext, handle, lastCreate, freed, crashed>>

\* lines 336-344
SfTs(t) ==
    /\ InCall(t, "sf_ts")
    /\ SfSend(t, "ts", SizeofI64, SizeofI64, "sf_payload", FALSE)
    /\ UNCHANGED <<sendRun, rec_tempname, rec_tempext, handle, lastCreate, freed, crashed>>

\* lines 346-348 and 364-365: the payload; the mutex is released either way
SfPayload(t) ==
    /\ InCall(t, "sf_payload")
    /\ \E run \in SendResultsFor(sock = "open", PayloadLen(th[t].length)) :
        /\ wire' = IF run.delivered
                   THEN Append(wire, Block("payload", th[t].ticket,
                                           PayloadLen(th[t].length)))
                   ELSE wire
        /\ rc' = [rc EXCEPT !.mutex = 0]
        /\ th' = [th EXCEPT ![t] =
                    IF run.failed THEN [th[t] EXCEPT !.pc = "sf_failclose"]
                    ELSE Returned(t, 0)]
    /\ UNCHANGED <<sendRun, rec_tempname, rec_tempext, handle, lastCreate, sock,
                   freed, crashed, hist>>

\* lines 349-350
SfFailClose(t) ==
    /\ InCall(t, "sf_failclose")
    /\ sock' = "closed"
    /\ hist' = CloseSock(hist)
    /\ th' = [th EXCEPT ![t] = Returned(t, -5)]
    /\ UNCHANGED <<sendRun, rec_tempname, rec_tempext, handle, lastCreate, rc,
                   freed, crashed, wire>>

(* ------------------------ janus_recorder_close ------------------------ *)
\* a plain store in place of the compare-and-exchange
CloseWinsAlways(writable) == TRUE

\* line 369: g_atomic_int_compare_and_exchange(&recorder->writable, 1, 0)
CloseWins(writable) == writable = 1

\* line 369 run by thread record me: on to the mutex, or -1 returned (to
\* janus_recorder_free when it made the call)
CloseCas(me) ==
    IF CloseWins(rc.writable) THEN [me EXCEPT !.pc = "cl_lock"]
    ELSE IF me.inFree THEN [me EXCEPT !.pc = "fr_release"]
    ELSE [me EXCEPT !.pc = "idle", !.rv = -1]

CloseCall(t) ==
    /\ MayCall(t)
    /\ th' = [th EXCEPT ![t] = CloseCas(Started("close", "cl_cas", FALSE, 0))]
    /\ rc' = [rc EXCEPT !.writable = 0]
    /\ hist' = [hist EXCEPT !.calls = @ + 1, !.closeCalls = @ + 1,
                            !.closeErr = IF CloseWins(rc.writable) THEN @ ELSE @ + 1]
    /\ UNCHANGED <<sendRun, rec_tempname, rec_tempext, handle, lastCreate, sock,
                   freed, crashed, wire>>

\* line 72: the close janus_recorder_free makes
FrClose(t) ==
    /\ InCall(t, "fr_close")
    /\ th' = [th EXCEPT ![t] = CloseCas([th[t] EXCEPT !.inFree = TRUE])]
    /\ rc' = [rc EXCEPT !.writable = 0]
    /\ hist' = [hist EXCEPT !.closeCalls = @ + 1,
                            !.closeErr = IF CloseWins(rc.writable) THEN @ ELSE @ + 1]
    /\ UNCHANGED <<sendRun, rec_tempname, rec_tempext, handle, lastCreate, sock,
                   freed, crashed, wire>>

\* lines 371-379: take the mutex, close the descriptor
ClFin(t) ==
    /\ InCall(t, "cl_lock")
    /\ MutexFree(rc.mutex)
    /\ rc' = [rc EXCEPT !.mutex = t]
    /\ IF rc.tcpsock > 0
       THEN /\ sock' = "closed"
            /\ hist' = [CloseSock(hist) EXCEPT !.closeFin = @ + 1]
       ELSE UNCHANGED <<sock, hist>>
    /\ th' = [th EXCEPT ![t].pc = "cl_rename"]
    /\ UNCHANGED <<sendRun, rec_tempname, rec_tempext, handle, lastCreate,
                   freed, crashed, wire>>

\* line 384: the name without the temporary extension
Untagged(filename, tempext) ==
    g_snprintf(strlen(filename) - strlen(tempext), filename)

\* lines 380-405; strlen of a filename that free has set to NULL faults
ClRename(t) ==
    /\ InCall(t, "cl_rename")
    /\ IF rec_tempname /\ rc.filename = NULL
       THEN /\ crashed' = TRUE
            /\ UNCHANGED <<rc, th, hist>>
       ELSE /\ \E renamed \in BOOLEAN :
                 /\ rc' = [rc EXCEPT !.mutex = 0,
                                     !.filename = IF rec_tempname /\ renamed
                                                  THEN Untagged(@, rec_tempext) ELSE @]
                 /\ hist' = [hist EXCEPT
                               !.closeOk = @ + 1,
                               !.renames = IF rec_tempname THEN @ + 1 ELSE @,
                               !.renamed = IF rec_tempname /\ renamed THEN @ + 1 ELSE @]
            /\ th' = [th EXCEPT ![t] =
                        IF th[t].inFree THEN [th[t] EXCEPT !.pc = "fr_release"]
                        ELSE Returned(t, 0)]
            /\ UNCHANGED crashed
    /\ UNCHANGED <<sendRun, rec_tempname, rec_tempext, handle, lastCreate, sock,
                   freed, wire>>

(* ---------------- janus_recorder_destroy, janus_recorder_free ---------- *)
\* a plain store in place of the compare-and-exchange
DestroyWinsAlways(destroyed) == TRUE

\* line 409: g_atomic_int_compare_and_exchange(&recorder->destroyed, 0, 1)
DestroyWins(destroyed) == destroyed = 0

DestroyCall(t) ==
    /\ MayCall(t)
    /\ th' = [th EXCEPT ![t] =
                IF DestroyWins(rc.destroyed) THEN Started("destroy", "ds_dec", FALSE, 0)
                ELSE Started("destroy", "idle", FALSE, 0)]
    /\ rc' = [rc EXCEPT !.destroyed = 1]
    /\ hist' = [hist EXCEPT !.calls = @ + 1]
    /\ UNCHANGED <<sendRun, rec_tempname, rec_tempext, handle, lastCreate, sock,
                   freed, crashed, wire>>

\* line 411, janus_refcount_decrease: at zero the thread enters
\* janus_recorder_free
DsDec(t) ==
    /\ InCall(t, "ds_dec")
    /\ rc' = [rc EXCEPT !.ref = @ - 1]
    /\ th' = [th EXCEPT ![t] =
                IF rc.ref - 1 = 0 THEN [th[t] EXCEPT !.pc = "fr_close"]
                ELSE Returned(t, 0)]
    /\ hist' = [hist EXCEPT !.decs = @ + 1,
                            !.frees = IF rc.ref - 1 = 0 THEN @ + 1 ELSE @]
    /\ UNCHANGED <<sendRun, rec_tempname, rec_tempext, handle, lastCreate, sock,
                   freed, crashed, wire>>

\* lines 73-83: the strings are released and the recorder itself
FrRelease(t) ==
    /\ InCall(t, "fr_release")
    /\ rc' = [rc EXCEPT !.dir = NULL, !.filename = NULL, !.codec = NULL]
    /\ freed' = TRUE
    /\ th' = [th EXCEPT ![t] = Returned(t, 0)]
    /\ UNCHANGED <<sendRun, rec_tempname, rec_tempext, handle, lastCreate, sock,
                   crashed, wire, hist>>

(* ------------------------- other reference holders --------------------- *)
\* the caller that created the recorder takes a reference for another
\* holder before the recorder is put to use
RefIncrease ==
    /\ ~crashed /\ handle = "rc" /\ ~freed
    /\ rc.ref > 0
    /\ hist.calls = 0
    /\ hist.holders < MaxHolders
    /\ rc' = [rc EXCEPT !.ref = @ + 1]
    /\ hist' = [hist EXCEPT !.holders = @ + 1, !.held = @ + 1]
    /\ UNCHANGED <<sendRun, rec_tempname, rec_tempext, handle, lastCreate, sock,
                   freed, crashed, th, wire>>

\* a holder gives its reference back from thread t
RefDecrease(t) ==
    /\ ~crashed /\ handle = "rc" /\ ~freed
    /\ th[t].pc = "idle"
    /\ hist.held > 0
    /\ rc' = [rc EXCEPT !.ref = @ - 1]
    /\ th' = [th EXCEPT ![t] =
                IF rc.ref - 1 = 0 THEN Started("unref", "fr_close", FALSE, 0)
                ELSE th[t]]
    /\ hist' = [hist EXCEPT !.held = @ - 1,
                            !.frees = IF rc.ref - 1 = 0 THEN @ + 1 ELSE @]
    /\ UNCHANGED <<sendRun, rec_tempname, rec_tempext, handle, lastCreate, sock,
                   freed, crashed, wire>>

(* ------------------------------ after free ----------------------------- *)
\* A thread still inside a call when the recorder is freed reads freed
\* memory: it either finds the old contents, and goes on as above, or faults.
Fault(t) ==
    /\ ~crashed /\ handle = "rc" /\ freed
    /\ th[t].pc # "idle"
    /\ crashed' = TRUE
    /\ UNCHANGED <<sendRun, rec_tempname, rec_tempext, handle, lastCreate, sock,
                   rc, freed, th, wire, hist>>

Next ==
    \/ Create
    \/ RefIncrease
    \/ \E t \in Threads :
        \/ SaveFrameCall(t) \/ SfEnter(t) \/ SfMeta(t) \/ SfTag(t)
        \/ SfLen(t) \/ SfTs(t) \/ SfPayload(t) \/ SfFailClose(t)
        \/ CloseCall(t) \/ FrClose(t) \/ ClFin(t) \/ ClRename(t)
        \/ DestroyCall(t) \/ DsDec(t) \/ FrRelease(t)
        \/ RefDecrease(t)
        \/ Fault(t)

Spec == Init /\ [][Next]_vars

\* the steps thread t takes inside a call, which the scheduler runs in the end
Step(t) ==
    \/ SfEnter(t) \/ SfMeta(t) \/ SfTag(t) \/ SfLen(t) \/ SfTs(t)
    \/ SfPayload(t) \/ SfFailClose(t) \/ FrClose(t) \/ ClFin(t) \/ ClRename(t)
    \/ DsDec(t) \/ FrRelease(t)

\* every thread inside a call keeps being scheduled
FairSpec == Spec /\ \A t \in Threads : WF_vars(Step(t))

(* ------------------- one thread, many kinds of input ------------------- *)
InputInit == InitWith(WideExtensions)

\* the thread that makes the calls
Caller == CHOOSE t \in Threads : \A u \in Threads : t <= u

\* the one create call of the process
InputCreate ==
    /\ handle = "none"
    /\ CreateWith(WideTargets, WideCodecs, Clock)

InputNext ==
    \/ InputCreate
    \/ SaveFrameCallWith(Caller, WideFrameArgs)
    \/ SfEnter(Caller) \/ SfMeta(Caller) \/ SfTag(Caller) \/ SfLen(Caller)
    \/ SfTs(Caller) \/ SfPayload(Caller) \/ SfFailClose(Caller)
    \/ CloseCall(Caller) \/ ClFin(Caller) \/ ClRename(Caller)
    \/ DestroyCall(Caller) \/ DsDec(Caller) \/ FrClose(Caller) \/ FrRelease(Caller)

InputSpec == InputInit /\ [][InputNext]_vars

(* ------------------- send_tcp_content, byte by byte -------------------- *)
SendScripts == UNION {[1..n -> SendtoOutcomes] : n \in 0..MaxSendSteps}

\* send_tcp_content was called with len bytes, and sendto will answer as the
\* script says
SendCalled(len, script) ==
    [stage |-> "called", len |-> len, script |-> script, ret |-> 0, segs |-> <<>>]

\* a program that has only called send_tcp_content on a connected socket
SendInit ==
    /\ rec_tempname = FALSE
    /\ rec_tempext = NULL
    /\ handle = "none"
    /\ lastCreate = [codec |-> NULL, file |-> NULL, err |-> "none"]
    /\ sock = "open"
    /\ rc = NoRecorder
    /\ freed = FALSE
    /\ crashed = FALSE
    /\ th = [t \in Threads |-> IdleThread]
    /\ wire = <<>>
    /\ hist = NoHistory
    /\ \E len \in 0..MaxSendLen, script \in SendScripts :
          /\ send_tcp_content(len, script).complete
          /\ sendRun = SendCalled(len, script)

\* lines 414-426 run to the return
SendReturn ==
    /\ sendRun.stage = "called"
    /\ LET run == send_tcp_content(sendRun.len, sendRun.script)
       IN sendRun' = [sendRun EXCEPT !.stage = "returned", !.ret = run.ret,
                                     !.segs = run.segs]
    /\ UNCHANGED <<rec_tempname, rec_tempext, handle, lastCreate, sock, rc,
                   freed, crashed, th, wire, hist>>

SendNext == SendReturn

SendSpec == SendInit /\ [][SendNext]_vars

(* ------------------------------ properties ----------------------------- *)
Kinds(k) == {i \in 1..Len(wire) : wire[i].kind = k}
SentBy(ticket) == {i \in 1..Len(wire) : wire[i].ticket = ticket}
InClose(t) == th[t].pc \in {"cl_lock", "cl_rename"}
ValidArgs(t) == th[t].buf /\ th[t].length >= 1
ReturnedFrom(t, op) == th[t].op = op /\ th[t].pc = "idle"

\* C1: over all interleavings of save_frame calls the info header (the
\* metadata block) reaches the remote end at most once, and exactly once
\* before the first frame tag does.
C1_MetadataOnceBeforeFrames ==
    /\ Cardinality(Kinds("meta")) <= 1
    /\ \A i \in Kinds("tag") : \E j \in Kinds("meta") : j < i

\* two different calls have put a frame tag on the wire
C1_Witness ==
    /\ \E i, j \in Kinds("tag") : wire[i].ticket # wire[j].ticket
    /\ Cardinality(Kinds("meta")) = 1

\* position of a block kind within the stream of one call
KindRank(k) ==
    CASE k = "fname" -> 0 [] k = "hdr" -> 1 [] k = "meta" -> 2 [] k = "tag" -> 3
      [] k = "len" -> 4 [] k = "ts" -> 5 [] k = "payload" -> 6

\* block a goes strictly before block b: an earlier holder of the mutex, or
\* the same call and an earlier part of its output
Before(a, b) ==
    \/ a.ticket < b.ticket
    \/ a.ticket = b.ticket /\ KindRank(a.kind) < KindRank(b.kind)

\* C2: the wire of a recorder is the file name and the container header sent
\* by create, then the blocks of the save_frame calls in the order in which
\* the calls took the mutex, each call's blocks together and in the order
\* metadata (first frame only), tag, length, timestamp, payload.
C2_WireOrder ==
    /\ handle = "rc" =>
         /\ Len(wire) >= 2
         /\ wire[1].kind = "fname" /\ wire[1].ticket = 0
         /\ wire[2].kind = "hdr" /\ wire[2].ticket = 0
    /\ \A i, j \in 1..Len(wire) : i < j => Before(wire[i], wire[j])
    /\ \A i \in 1..Len(wire) :
         wire[i].kind \in {"len", "ts", "payload"} =>
            i > 1 /\ wire[i - 1].ticket = wire[i].ticket

\* a whole frame of one call is followed by the frame of a later call
C2_Witness ==
    \E i, j \in 1..Len(wire) :
        /\ wire[i].kind = "payload" /\ wire[j].kind = "payload"
        /\ wire[i].ticket < wire[j].ticket
        /\ Cardinality(Kinds("meta")) = 1

\* C3: once a close call has been made on the recorder, exactly one close
\* call (that of janus_recorder_free included) is or was past line 369; it
\* alone closes the descriptor and renames, and it alone returns 0; every
\* other close call has returned -1.
C3_OneCloseWins ==
    /\ hist.closeOk + Cardinality({t \in Threads : InClose(t)})
         = IF hist.closeCalls >= 1 THEN 1 ELSE 0
    /\ hist.closeErr = IF hist.closeCalls >= 1 THEN hist.closeCalls - 1 ELSE 0
    /\ hist.closeFin <= 1
    /\ hist.renames <= 1
    /\ hist.renames <= hist.closeOk
    /\ hist.closeOk <= hist.closeFin

\* two close calls have returned: one 0, one -1
C3_Witness ==
    /\ hist.closeCalls >= 2
    /\ hist.closeOk = 1
    /\ hist.closeErr >= 1
    /\ \E t \in Threads : ReturnedFrom(t, "close") /\ th[t].rv = -1

\* C4: of the destroy calls made on a recorder exactly one decrements the
\* reference count, and janus_recorder_free runs at most once.
C4_OneDestroyReleases ==
    /\ hist.decs + Cardinality({t \in Threads : th[t].pc = "ds_dec"})
         = IF rc.destroyed = 1 THEN 1 ELSE 0
    /\ hist.frees <= 1
    /\ rc.ref >= 0

\* two destroy calls have returned and one reference was released
C4_Witness ==
    /\ \E t, u \in Threads :
          t # u /\ ReturnedFrom(t, "destroy") /\ ReturnedFrom(u, "destroy")
    /\ hist.decs = 1

\* C5: close(2) is called at most once on the descriptor of a recorder,
\* whichever of save_frame, close and destroy call it.
C5_SinkFinalizedOnce == hist.sockCloses <= 1

\* C6: a save_frame call with a null buffer or length 0 returns -2, puts no
\* block on the wire, and none of its steps changes writable, header or the
\* descriptor.
C6_InvalidArgument ==
    /\ [](\A t \in Threads :
            th[t].op = "save" /\ ~ValidArgs(t) =>
               /\ th[t].pc = "idle" => th[t].rv = -2
               /\ th[t].ticket # 0 => SentBy(th[t].ticket) = {})
    /\ [][\A t \in Threads :
            th[t].op = "save" /\ ~ValidArgs(t) /\ th'[t] # th[t] /\ th[t].pc # "idle" =>
               /\ rc'.writable = rc.writable
               /\ rc'.header = rc.header
               /\ sock' = sock
               /\ wire' = wire
               /\ hist'.sockCloses = hist.sockCloses]_vars

\* an invalid call has returned -2 from a recorder that a close has made
\* unwritable while its descriptor is still open
C6_Witness ==
    /\ \E t \in Threads :
          ReturnedFrom(t, "save") /\ ~ValidArgs(t) /\ th[t].rv = -2 /\ th[t].ticket # 0
    /\ rc.writable = 0
    /\ sock = "open"

\* C7: a save_frame call started after a close returned 0 never returns 0,
\* never gets past the checks of lines 272-286 and puts no block on the
\* wire; with a buffer and a length >= 1 it returns -4.
C7_NoAppendAfterClose ==
    \A t \in Threads :
        th[t].op = "save" /\ th[t].after =>
           /\ th[t].pc \in {"idle", "sf_lock"}
           /\ th[t].pc = "idle" => th[t].rv = IF ValidArgs(t) THEN -4 ELSE -2
           /\ th[t].ticket # 0 => SentBy(th[t].ticket) = {}

\* a valid save_frame started after the close has returned -4
C7_Witness ==
    \E t \in Threads :
        ReturnedFrom(t, "save") /\ th[t].after /\ ValidArgs(t) /\ th[t].rv = -4

\* C8: when a save_frame call has returned -5 the descriptor is closed and
\* writable is 0.
C8_FailedWriteClosesRecorder ==
    \A t \in Threads :
        ReturnedFrom(t, "save") /\ th[t].rv = -5 =>
           sock = "closed" /\ rc.writable = 0

\* C9: a close call (that of janus_recorder_free included) that waits for
\* the mutex of a recorder still in memory gets it in the end.
C9_CloseGetsTheMutex ==
    \A t \in Threads :
        (th[t].pc = "cl_lock") ~> (th[t].pc # "cl_lock" \/ freed)

\* C10: a create that fails returns NULL and leaves no descriptor open; when
\* the codec is missing or not supported no descriptor was opened and
\* nothing was sent.
C10_FailedCreateLeavesNothing ==
    /\ handle = "NULL" =>
          /\ rc = NoRecorder
          /\ sock # "open"
          /\ lastCreate.err # "none"
    /\ (handle # "none" /\ (lastCreate.codec = NULL
                            \/ CodecType(lastCreate.codec) = "unsupported")) =>
          /\ handle = "NULL"
          /\ sock = "none"
          /\ wire = <<>>

\* a create failed sending the container header after the file name went out
C10_Witness ==
    /\ handle = "NULL"
    /\ lastCreate.err = "send"
    /\ sock = "closed"
    /\ Len(wire) >= 1


\* the name create was asked to give the recording, and the ".mjr" put after it
BaseName == IF lastCreate.file = NULL THEN RandomName ELSE lastCreate.file
Mjr == <<".", "m", "j", "r">>

\* C11: with temporary names on, the filename of a recorder is
\* <base>.mjr.<extension> from create until a close renames it; a rename that
\* succeeds leaves exactly <base>.mjr, one that fails leaves the filename as
\* it was and close returns 0 all the same; with temporary names off the
\* filename is <base>.mjr, and close renames nothing and leaves it alone.
C11_TempNameUntilClose ==
    (handle = "rc" /\ ~freed) =>
        IF rec_tempname
        THEN /\ hist.renamed = 0 =>
                    rc.filename = BaseName \o Mjr \o <<".">> \o rec_tempext
             /\ hist.renamed > 0 => rc.filename = BaseName \o Mjr
             /\ hist.closeOk = hist.renames
        ELSE /\ rc.filename = BaseName \o Mjr
             /\ hist.renames = 0

\* the same for the names that fit in newname with their extension
C11_ShortNames == (lastCreate.file # LongName) => C11_TempNameUntilClose

\* C12: in every state in which the recorder has been freed, its descriptor
\* has been closed at least once and writable is 0: janus_recorder_free
\* closes a recorder nobody closed before it releases the memory.
C12_FreedAfterFinalize ==
    freed => (hist.sockCloses >= 1 /\ rc.writable = 0)

\* the same when no janus_recorder_close call but the one of
\* janus_recorder_free was made
C12_FreeAloneCloses ==
    (freed /\ hist.closeCalls = 1 /\ hist.closeOk = 1)
        => (hist.sockCloses >= 1 /\ rc.writable = 0)

\* a string with its capital letters made small
Lower(str) == [i \in 1..Len(str) |-> LowerChar(str[i])]

\* the medium the codec list gives a name, "none" for a name not on it
ListedMedium(name) ==
    IF name \in {<<"v", "p", "8">>, <<"v", "p", "9">>, <<"h", "2", "6", "4">>}
    THEN "video"
    ELSE IF name \in {<<"o", "p", "u", "s">>, <<"g", "7", "1", "1">>,
                      <<"p", "c", "m", "u">>, <<"p", "c", "m", "a">>,
                      <<"g", "7", "2", "2">>}
    THEN "audio"
    ELSE IF name = <<"t", "e", "x", "t">> THEN "data"
    ELSE "none"

\* create gave the recorder the medium of this name of its codec, or failed
\* for the codec when the name has none
ClassifiedAs(name) ==
    handle # "none" =>
        /\ IF lastCreate.codec = NULL \/ ListedMedium(name) = "none"
           THEN handle = "NULL"
           ELSE lastCreate.err # "codec"
        /\ (handle = "rc" /\ ~freed) =>
              /\ rc.type = ListedMedium(name)
              /\ rc.codec = lastCreate.codec
              /\ rc.created \in Clock

\* no step of save_frame, close or destroy changes the medium, the codec name
\* or the creation time of a recorder that is still allocated after the step
MetadataKept ==
    (handle = "rc" /\ ~freed') =>
        /\ rc'.type = rc.type
        /\ rc'.codec = rc.codec
        /\ rc'.created = rc.created

\* C13 as stated: create gives vp8, vp9, h264 the medium video, opus, g711,
\* pcmu, pcma, g722 audio and text data; every other string and a missing
\* codec make it fail; no later call changes medium, codec name or creation
\* time.
C13_CodecTable ==
    /\ []ClassifiedAs(lastCreate.codec)
    /\ [][MetadataKept]_vars

\* C13 as the code has it: the codec is compared with the nine names without
\* regard to the case of its letters (so "VP8" is video and "Text" is data),
\* every string that is none of them in any case and a missing codec make
\* create fail, the codec name is stored as given, and no later call changes
\* medium, codec name or creation time while the recorder is allocated.
C13_CodecTableNoCase ==
    /\ []ClassifiedAs(IF lastCreate.codec = NULL THEN NULL ELSE Lower(lastCreate.codec))
    /\ [][MetadataKept]_vars

\* a recorder created with "VP8" is a video recorder named "VP8" after a
\* frame was sent and a close returned
C13_Witness ==
    /\ handle = "rc"
    /\ lastCreate.codec = <<"V", "P", "8">>
    /\ rc.type = "video"
    /\ rc.codec = <<"V", "P", "8">>
    /\ Kinds("payload") # {}
    /\ hist.closeOk = 1

\* the positions in buf of the bytes the socket accepted, in the order it
\* accepted them
RECURSIVE Delivered(_)
Delivered(segs) ==
    IF segs = <<>> THEN <<>>
    ELSE [i \in 1..Head(segs)[2] |-> Head(segs)[1] + i - 1] \o Delivered(Tail(segs))

\* C14: send_tcp_content returns a negative value whenever a sendto failed;
\* when none failed it returns len with bytes 0..len-1 of buf delivered in
\* order, each once; it never returns success after a failed sendto, and
\* the bytes delivered are never repeated or skipped.
C14_SendAllOrFail ==
    sendRun.stage = "returned" =>
        LET failedSend == \E i \in 1..Len(sendRun.script) : sendRun.script[i] = "fail"
            bytes == Delivered(sendRun.segs)
        IN /\ failedSend => sendRun.ret < 0
           /\ ~failedSend => (sendRun.ret = sendRun.len /\ Len(bytes) = sendRun.len)
           /\ \A i \in 1..Len(bytes) : bytes[i] = i - 1

\* the same for the calls whose first sendto fails or none does
C14_FirstSendFails ==
    (\A i \in 2..Len(sendRun.script) : sendRun.script[i] # "fail")
        => C14_SendAllOrFail

\* the bytes of the blocks at these positions of the wire
RECURSIVE BytesOf(_)
BytesOf(positions) ==
    IF positions = {} THEN 0
    ELSE LET i == CHOOSE j \in positions : TRUE
         IN wire[i].n + BytesOf(positions \ {i})

\* the call of thread t returned 0 and its length field holds the number of
\* body bytes that follow it: length, and 8 more in a data recording
LengthFieldRight(t) ==
    (ReturnedFrom(t, "save") /\ th[t].rv = 0) =>
        LET mine == SentBy(th[t].ticket)
            body == BytesOf(mine \cap (Kinds("ts") \cup Kinds("payload")))
        IN /\ {wire[i].n : i \in mine \cap Kinds("len")} = {body}
           /\ body = IF rc.type = "data" THEN th[t].length + SizeofI64
                                         ELSE th[t].length

\* C15: for every save_frame call that returns 0 with a payload of length
\* bytes, whatever the unsigned length, the two-byte length field of the
\* frame holds the number of body bytes sent after it: length for audio and
\* video, length + 8 for data.
C15_LengthField == \A t \in Threads : LengthFieldRight(t)

\* the same for the frames whose body has fewer than 2^16 bytes
C15_BodyFitsField ==
    \A t \in Threads :
        (th[t].length + (IF rc.type = "data" THEN SizeofI64 ELSE 0) < 65536)
            => LengthFieldRight(t)

\* thread u holds the mutex in save_frame, has put a block on the wire and
\* has its payload still to send
MidFrame(u) ==
    /\ th[u].op = "save"
    /\ th[u].pc \in {"sf_tag", "sf_len", "sf_ts", "sf_payload"}
    /\ rc.mutex = u
    /\ SentBy(th[u].ticket) # {}

\* C16: no step of another thread closes the descriptor, in close or in a
\* failing save_frame, while a save_frame call holds the mutex between its
\* first and its last write.
C16_CloseOutsideFrames ==
    [][hist'.sockCloses > hist.sockCloses
          => ~ \E u \in Threads : MidFrame(u) /\ th'[u] = th[u]]_vars

\* thread t is in, or was last in, a save_frame call with a null buffer or a
\* length below 1
InvalidCall(t) == th[t].op = "save" /\ ~ValidArgs(t)

\* C17 as stated: a save_frame call with a null buffer or a length below 1
\* returns -2 without taking the mutex, so it is never one of the calls that
\* took it.
C17_InvalidTakesNoLock ==
    \A t \in Threads :
        InvalidCall(t) =>
            /\ th[t].pc = "idle" => th[t].rv = -2
            /\ th[t].ticket = 0

\* C17 as the code has it: a save_frame call with a null buffer or a length
\* below 1 returns -2 only after it took the mutex, and has released it when
\* it returns; it takes the mutex only when no thread holds it, so it is
\* never a later taker of the mutex than a save_frame call that still holds
\* it: the call waits for as long as another thread holds the mutex.
C17_InvalidWaitsForLock ==
    \A t \in Threads :
        InvalidCall(t) =>
            /\ th[t].pc = "idle" =>
                  (th[t].rv = -2 /\ th[t].ticket # 0 /\ rc.mutex # t)
            /\ \A u \in Threads \ {t} :
                  (th[u].op = "save" /\ th[u].ticket # 0 /\ rc.mutex = u)
                      => th[t].ticket < th[u].ticket

\* an invalid call has returned -2 as the second call to take the mutex,
\* after a call of another thread that put its frame on the wire
C17_Witness ==
    \E t, u \in Threads :
        /\ t # u
        /\ InvalidCall(t) /\ th[t].pc = "idle" /\ th[t].rv = -2
        /\ th[t].ticket = 2
        /\ th[u].op = "save" /\ th[u].ticket = 1
        /\ \E i \in SentBy(1) : wire[i].kind = "payload"

\* C18: every return of save_frame and of close releases the mutex: in every
\* state in which no save_frame or close call is in progress the mutex is
\* free, also after a save_frame returned -5 for a failed write of the
\* metadata, the tag, the length or the timestamp.
C18_LockFreeWhenIdle ==
    (\A t \in Threads : th[t].pc = "idle") => rc.mutex = 0

\* C19: the recorder is never freed while a call on it is in progress; with
\* one reference, a destroy racing with a close does not release the
\* recorder while the close is between taking and releasing the mutex.
C19_NoFreeDuringCall ==
    freed => \A t \in Threads : th[t].pc = "idle"

============================================================================
